---- MODULE Spec2Model ----
(***************************************************************************)
(* Product chatbot: intent extraction (Groq call, JSON parsing,            *)
(* normalisation, deterministic regex fallback), catalog filtering and     *)
(* response composition, modelled from app/services/*.py and               *)
(* app/routers/chat.py.                                                    *)
(*                                                                         *)
(* Python str values are TLA+ strings; a character is a string of length   *)
(* one, read with SubSeq(s, i, i).  Floats are integers in hundredths      *)
(* (4.5 is 450); every float of the inputs has at most two decimals.       *)
(***************************************************************************)
EXTENDS Integers, Sequences, FiniteSets, TLC

\* ------------------------------------------------------------------ str

\* the character at position i ("" outside the string)
Ch(s, i) == IF i \in 1..Len(s) THEN SubSeq(s, i, i) ELSE ""

From(s, i) == SubSeq(s, i, Len(s))

LowerLetters == "abcdefghijklmnopqrstuvwxyz"

UpperLetters == "ABCDEFGHIJKLMNOPQRSTUVWXYZ"

Digits == "0123456789"

CharSet(s) == { Ch(s, i) : i \in 1..Len(s) }

LowerSet == CharSet(LowerLetters)

UpperSet == CharSet(UpperLetters)

DigitSet == CharSet(Digits)

\* \s of re (str patterns): the whitespace characters
Space == {" ", "\t", "\n", "\r"}

\* \w : alphanumerics and the underscore (\d is DigitSet)
Word == LowerSet \cup UpperSet \cup DigitSet \cup {"_"}

\* [\w\s\-]
WordSpaceDash == Word \cup Space \cup {"-"}

\* [\w\s]
WordSpace == Word \cup Space

\* str.lower() of one character
LowerChar(c) ==
    IF c \in UpperSet
    THEN Ch(LowerLetters, CHOOSE i \in 1..26 : Ch(UpperLetters, i) = c)
    ELSE c

RECURSIVE Lower(_)
\* str.lower()
Lower(s) == IF Len(s) = 0 THEN "" ELSE LowerChar(Ch(s, 1)) \o Lower(From(s, 2))

\* str.strip(): leading and trailing whitespace removed
Strip(s) ==
    LET n == Len(s)
        nonsp == { i \in 1..n : Ch(s, i) \notin Space }
    IN  IF nonsp = {} THEN ""
        ELSE SubSeq(s, CHOOSE i \in nonsp : \A j \in nonsp : i <= j,
                       CHOOSE i \in nonsp : \A j \in nonsp : j <= i)

\* the literal lit occurs in s at position i
StartsAt(s, i, lit) == i + Len(lit) - 1 <= Len(s) /\ SubSeq(s, i, i + Len(lit) - 1) = lit

\* `sub in s` of Python
Contains(s, sub) == \E i \in 1..(Len(s) + 1) : StartsAt(s, i, sub)

\* the position after the longest run, from position i, of characters of the
\* class cls
RunEnd(s, i, cls) ==
    CHOOSE j \in i..(Len(s) + 1) :
        /\ \A k \in i..(j - 1) : Ch(s, k) \in cls
        /\ j = Len(s) + 1 \/ Ch(s, j) \notin cls

Min(S) == CHOOSE x \in S : \A y \in S : x <= y

Max(S) == CHOOSE x \in S : \A y \in S : y <= x

\* a local name: With(v, LAMBDA x : e) is e with x standing for the value v
With(v, Body(_)) == Body(v)

\* ----------------------------------------------------------------- JSON
\* A value of json.loads / a Python object: None, bool, number, str, list, dict.

JNull == [t |-> "null"]

JBool(b) == [t |-> "bool", b |-> b]

JNum(n) == [t |-> "num", n |-> n]

JStr(s) == [t |-> "str", s |-> s]

JList(items) == [t |-> "list", items |-> items]

\* a dict: m is a function from the keys (strings) to values
JObj(m) == [t |-> "obj", m |-> m]

EmptyMap == << >>

\* d[k] = v on a dict's map
Put(m, k, v) == [x \in DOMAIN m \cup {k} |-> IF x = k THEN v ELSE m[x]]

\* dict.get(k, default)
Get(m, k, default) == IF k \in DOMAIN m THEN m[k] ELSE default

\* ---------------------------------------------------------------- float

\* floats are counted in hundredths
Scale == 10 * 10

RECURSIVE DigitsValue(_)
\* the integer a string of decimal digits denotes
DigitsValue(s) ==
    IF Len(s) = 0 THEN 0
    ELSE DigitsValue(SubSeq(s, 1, Len(s) - 1)) * 10
         + (CHOOSE d \in 0..9 : Ch(Digits, d + 1) = Ch(s, Len(s)))

\* the hundredths a string of fraction digits denotes (two decimals kept)
FractionValue(s) == DigitsValue(SubSeq(s \o "00", 1, 2))

\* float(str): surrounding whitespace, an optional sign, digits and an optional
\* fraction; anything else is a ValueError (ok = FALSE)
FloatOfStr(str) ==
    With(Strip(str), LAMBDA s0 :
    With(IF Ch(s0, 1) \in {"-", "+"} THEN From(s0, 2) ELSE s0, LAMBDA s :
    With(RunEnd(s, 1, DigitSet), LAMBDA d :
    With(IF Ch(s, d) = "." THEN RunEnd(s, d + 1, DigitSet) ELSE d, LAMBDA f :
    With(DigitsValue(SubSeq(s, 1, d - 1)) * Scale + FractionValue(SubSeq(s, d + 1, f - 1)),
         LAMBDA v :
        IF f = Len(s) + 1 /\ (d > 1 \/ f > d + 1)
        THEN [ok |-> TRUE, val |-> IF Ch(s0, 1) = "-" THEN 0 - v ELSE v]
        ELSE [ok |-> FALSE, val |-> 0])))))

\* ----------------------------------------------------------- json.loads
\* The JSON grammar of json.loads on a str, without string escapes, exponents
\* and the NaN / Infinity literals (no input of the model uses them).

ParseFail == [ok |-> FALSE, val |-> JNull, pos |-> 0]

Parsed(v, p) == [ok |-> TRUE, val |-> v, pos |-> p]

JsonSpace == {" ", "\t", "\n", "\r"}

SkipSpace(s, i) == RunEnd(s, i, JsonSpace)

\* the position of the first quote from position i (past the end if none)
NextQuote(s, i) == Min({ j \in i..Len(s) : Ch(s, j) = "\"" } \cup {Len(s) + 1})

\* a string literal whose opening quote is at position i
ParseString(s, i) ==
    With(NextQuote(s, i + 1), LAMBDA k :
        IF Ch(s, i) # "\"" \/ k > Len(s) THEN ParseFail
        ELSE IF \E c \in {"\t", "\n", "\r", "\\"} : Contains(SubSeq(s, i + 1, k - 1), c)
        THEN ParseFail
        ELSE Parsed(JStr(SubSeq(s, i + 1, k - 1)), k + 1))

\* -?(0|[1-9]\d*)(\.\d+)? at position i
ParseNumber(s, i) ==
    With(IF Ch(s, i) = "-" THEN i + 1 ELSE i, LAMBDA b :
    With(IF Ch(s, b) = "0" THEN b + 1 ELSE RunEnd(s, b, DigitSet), LAMBDA d :
    With(IF Ch(s, d) = "." THEN RunEnd(s, d + 1, DigitSet) ELSE d, LAMBDA f :
    With(DigitsValue(SubSeq(s, b, d - 1)) * Scale
         + (IF f > d + 1 THEN FractionValue(SubSeq(s, d + 1, f - 1)) ELSE 0), LAMBDA v :
        IF d = b THEN ParseFail
        ELSE Parsed(JNum(IF b > i THEN 0 - v ELSE v), IF f > d + 1 THEN f ELSE d)))))

RECURSIVE ParseValue(_, _), ParseMembers(_, _, _), ParseItems(_, _, _)
\* the JSON value that starts at position i
ParseValue(s, i) ==
    LET c == Ch(s, i)
    IN  IF c = "{"
        THEN LET j == SkipSpace(s, i + 1)
             IN  IF Ch(s, j) = "}" THEN Parsed(JObj(EmptyMap), j + 1)
                 ELSE ParseMembers(s, j, EmptyMap)
        ELSE IF c = "["
        THEN LET j == SkipSpace(s, i + 1)
             IN  IF Ch(s, j) = "]" THEN Parsed(JList(<< >>), j + 1)
                 ELSE ParseItems(s, j, << >>)
        ELSE IF c = "\"" THEN ParseString(s, i)
        ELSE IF StartsAt(s, i, "null") THEN Parsed(JNull, i + 4)
        ELSE IF StartsAt(s, i, "true") THEN Parsed(JBool(TRUE), i + 4)
        ELSE IF StartsAt(s, i, "false") THEN Parsed(JBool(FALSE), i + 5)
        ELSE ParseNumber(s, i)

\* the members of an object from position i (a key's opening quote), m the
\* members read so far; a repeated key keeps its last value
ParseMembers(s, i, m) ==
    With(ParseString(s, i), LAMBDA key :
    With(SkipSpace(s, key.pos), LAMBDA colon :
        IF ~key.ok \/ Ch(s, colon) # ":" THEN ParseFail
        ELSE
    With(ParseValue(s, SkipSpace(s, colon + 1)), LAMBDA val :
        IF ~val.ok THEN ParseFail
        ELSE
    With(SkipSpace(s, val.pos), LAMBDA after :
    With(Put(m, key.val.s, val.val), LAMBDA m2 :
        IF Ch(s, after) = "}" THEN Parsed(JObj(m2), after + 1)
        ELSE IF Ch(s, after) = "," THEN ParseMembers(s, SkipSpace(s, after + 1), m2)
        ELSE ParseFail)))))

\* the items of an array from position i, items the ones read so far
ParseItems(s, i, items) ==
    With(ParseValue(s, i), LAMBDA val :
        IF ~val.ok THEN ParseFail
        ELSE
    With(SkipSpace(s, val.pos), LAMBDA after :
        IF Ch(s, after) = "]" THEN Parsed(JList(Append(items, val.val)), after + 1)
        ELSE IF Ch(s, after) = ","
        THEN ParseItems(s, SkipSpace(s, after + 1), Append(items, val.val))
        ELSE ParseFail))

\* json.loads(s): ok = FALSE is a json.JSONDecodeError
JsonLoads(s) ==
    With(ParseValue(s, SkipSpace(s, 1)), LAMBDA r :
        IF r.ok /\ SkipSpace(s, r.pos) = Len(s) + 1 THEN r ELSE ParseFail)

\* ------------------------------------------------------------------- re

NoMatch == [found |-> FALSE, group |-> ""]

Match(g) == [found |-> TRUE, group |-> g]

\* \s+([cls]+) from position e, the position after a keyword: \s+ is greedy and
\* gives whitespace back to the group when nothing of the class follows it
GroupAfterSpaces(s, e, cls) ==
    With(RunEnd(s, e, Space), LAMBDA w :
    With(RunEnd(s, w, cls), LAMBDA g :
        IF w = e THEN NoMatch
        ELSE IF g > w THEN Match(SubSeq(s, w, g - 1))
        ELSE IF w - e >= 2 /\ Ch(s, w - 1) \in cls THEN Match(Ch(s, w - 1))
        ELSE NoMatch))

\* re.search(r"(?:k1|k2|...)\s+([cls]+)", s): the leftmost position, and there the
\* first alternative, that matches
KeywordSearch(s, kws, cls) ==
    With({ i \in 1..Len(s) : \E a \in 1..Len(kws) :
              StartsAt(s, i, kws[a]) /\ GroupAfterSpaces(s, i + Len(kws[a]), cls).found },
         LAMBDA hits :
        IF hits = {} THEN NoMatch
        ELSE
    With(Min(hits), LAMBDA i :
    With(Min({ a \in 1..Len(kws) :
                 StartsAt(s, i, kws[a]) /\ GroupAfterSpaces(s, i + Len(kws[a]), cls).found }),
         LAMBDA a :
        GroupAfterSpaces(s, i + Len(kws[a]), cls))))

\* \s*(\d+(\.\d+)?) from position e
NumberAfterSpaces(s, e) ==
    With(RunEnd(s, e, Space), LAMBDA w :
    With(RunEnd(s, w, DigitSet), LAMBDA d :
    With(IF Ch(s, d) = "." THEN RunEnd(s, d + 1, DigitSet) ELSE d, LAMBDA f :
        IF d = w THEN NoMatch
        ELSE IF f > d + 1 THEN Match(SubSeq(s, w, f - 1))
        ELSE Match(SubSeq(s, w, d - 1)))))

\* rating(?:s)? (?:above|over|greater than|>=) : its alternatives, in the order
\* the regex tries them
RatingKeywords ==
    << "ratings above", "ratings over", "ratings greater than", "ratings >=",
       "rating above", "rating over", "rating greater than", "rating >=" >>

\* re.search(r"(?:rating(?:s)? (?:above|over|greater than|>=)\s*)(\d+(\.\d+)?)", s)
RatingSearch(s) ==
    With({ i \in 1..Len(s) : \E a \in 1..Len(RatingKeywords) :
              /\ StartsAt(s, i, RatingKeywords[a])
              /\ NumberAfterSpaces(s, i + Len(RatingKeywords[a])).found },
         LAMBDA hits :
        IF hits = {} THEN NoMatch
        ELSE
    With(Min(hits), LAMBDA i :
    With(Min({ a \in 1..Len(RatingKeywords) :
                 /\ StartsAt(s, i, RatingKeywords[a])
                 /\ NumberAfterSpaces(s, i + Len(RatingKeywords[a])).found }),
         LAMBDA a :
        NumberAfterSpaces(s, i + Len(RatingKeywords[a])))))

\* \s+(?:with|having|that have)\s+rating at position p
CategoryTail(s, p) ==
    With(RunEnd(s, p, Space), LAMBDA w :
        /\ w > p
        /\ \E c \in {"with", "having", "that have"} :
              /\ StartsAt(s, w, c)
              /\ With(RunEnd(s, w + Len(c), Space), LAMBDA w2 :
                     w2 > w + Len(c) /\ StartsAt(s, w2, "rating")))

CategoryKeywords == << "show me", "list", "find" >>

\* the ends of the group [\w\s]+? that starts at gs and is followed by the tail
CategoryEnds(s, gs) ==
    { ge \in gs..Len(s) :
        /\ \A k \in gs..ge : Ch(s, k) \in WordSpace
        /\ CategoryTail(s, ge + 1) }

\* \s+([\w\s]+?)\s+(?:with|having|that have)\s+rating from position e: the
\* greedy \s+ is tried longest first, the lazy group shortest first
CategoryGroup(s, e) ==
    With({ gs \in (e + 1)..RunEnd(s, e, Space) : CategoryEnds(s, gs) # {} },
         LAMBDA starts :
        IF starts = {} THEN NoMatch
        ELSE With(Max(starts), LAMBDA gs : Match(SubSeq(s, gs, Min(CategoryEnds(s, gs))))))

\* re.search(r"(?:show me|list|find)\s+([\w\s]+?)\s+(?:with|having|that have)\s+rating", s)
CategorySearch(s) ==
    With({ i \in 1..Len(s) : \E a \in 1..Len(CategoryKeywords) :
              /\ StartsAt(s, i, CategoryKeywords[a])
              /\ CategoryGroup(s, i + Len(CategoryKeywords[a])).found },
         LAMBDA hits :
        IF hits = {} THEN NoMatch
        ELSE
    With(Min(hits), LAMBDA i :
    With(Min({ a \in 1..Len(CategoryKeywords) :
                 /\ StartsAt(s, i, CategoryKeywords[a])
                 /\ CategoryGroup(s, i + Len(CategoryKeywords[a])).found }),
         LAMBDA a :
        CategoryGroup(s, i + Len(CategoryKeywords[a])))))

\* ----------------------------------------------------------- NLPService

Intents ==
    {"price_query", "availability", "rating_filter", "review_request",
     "category_query", "unknown"}

\* the dict {"intent": intent, "entity": entity, "criteria": criteria}
IntentResult(intent, entity, criteria) ==
    JObj([intent |-> JStr(intent), entity |-> entity, criteria |-> criteria])

PriceKeywords ==
    << "price of", "price for", "how much is", "what's the price of",
       "what is the price of" >>

AvailabilityKeywords == << "do you have", "have any", "in stock", "available" >>

\* (?:reviews?|opinions?) (?:for|about)
ReviewKeywords ==
    << "reviews for", "reviews about", "review for", "review about",
       "opinions for", "opinions about", "opinion for", "opinion about" >>

BrowseKeywords == << "show me", "list", "find", "browse" >>

common_categories ==
    {"electronics", "fragrances", "groceries", "laptops", "smartphones",
     "skincare", "home"}

\* NLPService._local_fallback_parser
LocalFallbackParser(message) ==
    With(Strip(Lower(message)), LAMBDA text :
    With(KeywordSearch(text, PriceKeywords, WordSpaceDash), LAMBDA price :
        IF price.found
        THEN IntentResult("price_query", JStr(Strip(price.group)), JNull)
        ELSE
    With(RatingSearch(text), LAMBDA rating :
        IF rating.found
        THEN With(CategorySearch(text), LAMBDA cat_m :
                 IntentResult("rating_filter",
                              IF cat_m.found THEN JStr(Strip(cat_m.group)) ELSE JNull,
                              JObj([min_rating |-> JNum(FloatOfStr(rating.group).val)])))
        ELSE
    With(KeywordSearch(text, AvailabilityKeywords, WordSpaceDash), LAMBDA avail :
        IF avail.found
        THEN IntentResult("availability", JStr(Strip(avail.group)), JNull)
        ELSE
    With(KeywordSearch(text, ReviewKeywords, WordSpaceDash), LAMBDA review :
        IF review.found
        THEN IntentResult("review_request", JStr(Strip(review.group)), JNull)
        ELSE
    With(KeywordSearch(text, BrowseKeywords, WordSpace), LAMBDA browse :
    With(Strip(browse.group), LAMBDA candidate :
        IF browse.found /\ \E c \in common_categories : Contains(candidate, c)
        THEN IntentResult("category_query", JStr(candidate), JNull)
        ELSE IntentResult("unknown", JNull, JNull))))))))

\* an exception raised instead of a value returned
Exc(kind) == [t |-> "exc", kind |-> kind]

IsExc(v) == v.t = "exc"

\* float(v) of _normalize_parsed, with its except clause: the float, or None
FloatOrNone(v) ==
    IF v.t = "num" THEN v
    ELSE IF v.t = "bool" THEN JNum(IF v.b THEN Scale ELSE 0)
    ELSE IF v.t = "str"
    THEN With(FloatOfStr(v.s), LAMBDA f : IF f.ok THEN JNum(f.val) ELSE JNull)
    ELSE JNull

\* the entity tested for emptiness before it is stripped
NormalizeEntity_CheckBeforeStrip(entity) ==
    IF entity.t = "str" /\ entity.s # "" THEN JStr(Strip(entity.s)) ELSE JNull

\* the entity of _normalize_parsed: entity.strip() or None for a str, else None
NormalizeEntity(entity) ==
    IF entity.t = "str" /\ Strip(entity.s) # "" THEN JStr(Strip(entity.s)) ELSE JNull

\* the intent of _normalize_parsed: clamped to the six intents
NormalizeIntent(intent) ==
    IF intent.t = "str" /\ intent.s \in Intents THEN intent.s ELSE "unknown"

\* NLPService._normalize_parsed
NormalizeParsed(parsed) ==
    IF parsed.t # "obj" THEN Exc("AttributeError")
    ELSE LET intent == Get(parsed.m, "intent", JStr("unknown"))
             entity == Get(parsed.m, "entity", JNull)
             criteria0 == Get(parsed.m, "criteria", JNull)
             criteria ==
                 IF criteria0.t # "obj" THEN JNull
                 ELSE IF criteria0.m # EmptyMap /\ "min_rating" \in DOMAIN criteria0.m
                 THEN JObj(Put(criteria0.m, "min_rating",
                               FloatOrNone(criteria0.m["min_rating"])))
                 ELSE criteria0
         IN  IF intent.t \in {"list", "obj"} THEN Exc("TypeError")
             ELSE IntentResult(NormalizeIntent(intent), NormalizeEntity(entity), criteria)

\* re.search(r"\{[\s\S]*\}", raw_text): from the first "{" to the last "}"
BraceSearch(raw_text) ==
    LET opens == { i \in 1..Len(raw_text) : Ch(raw_text, i) = "{" }
        closes == { i \in 1..Len(raw_text) : Ch(raw_text, i) = "}" }
    IN  IF opens = {} \/ closes = {} \/ Max(closes) < Min(opens) THEN NoMatch
        ELSE Match(SubSeq(raw_text, Min(opens), Max(closes)))

\* NLPService._safe_parse_result: the normalised dict, None (JNull), or the
\* exception _normalize_parsed raises
SafeParseResult(raw_text) ==
    With(JsonLoads(raw_text), LAMBDA direct :
        IF direct.ok THEN NormalizeParsed(direct.val)
        ELSE
    With(BraceSearch(raw_text), LAMBDA m :
        IF ~m.found THEN JNull
        ELSE
    With(JsonLoads(m.group), LAMBDA inner :
        IF inner.ok THEN NormalizeParsed(inner.val) ELSE JNull)))

\* for attempt in range(2)
GroqAttempts == 2

\* An outcome of one POST to the completion service: kind "ok" with the
\* content of choices[0].message, or the exception the attempt raises:
\* ConnectError (client.post), HTTPStatusError (raise_for_status, non-2xx),
\* KeyError (no choices structure in the body).
GroqOk(text) == [kind |-> "ok", text |-> text]

GroqFail(kind) == [kind |-> kind, text |-> ""]

\* the loop of _call_groq_intent_api from iteration `attempt` (0-based), where
\* outcomes[k] is what the k-th POST would do: the body returns or raises in
\* every iteration, nothing is caught inside the loop
GroqLoop(outcomes, attempt) ==
    IF attempt >= GroqAttempts
    THEN [result |-> Exc("RuntimeError"), attempts |-> attempt]
    ELSE LET o == outcomes[attempt + 1]
         IN  IF o.kind # "ok"
             THEN [result |-> Exc(o.kind), attempts |-> attempt + 1]
             ELSE [result |-> JStr(Strip(o.text)), attempts |-> attempt + 1]

\* NLPService._call_groq_intent_api: raw_text or the exception raised, and
\* the number of POSTs made
CallGroqIntentApi(outcomes) == GroqLoop(outcomes, 0)

\* the decision without its test of the intent
UsePrimary_AnyDict(parsed) == parsed.t = "obj" /\ parsed.m # EmptyMap

\* `parsed and parsed.get("intent") != "unknown"`, parsed a dict or None
UsePrimary(parsed) ==
    parsed.t = "obj" /\ parsed.m # EmptyMap
    /\ Get(parsed.m, "intent", JNull) # JStr("unknown")

\* an except clause that names the HTTP errors only
Caught_HttpOnly(exc) == exc.kind \in {"ConnectError", "HTTPStatusError"}

\* `except Exception as e` of analyze_message: whatever the try block raises
Caught(exc) == TRUE

\* NLPService.analyze_message: the try block (call, parse, decide), its
\* except clause, then the local parser.  result is what the caller gets: the
\* dict returned, or the exception that escapes
AnalyzeMessage(message, outcomes) ==
    With(CallGroqIntentApi(outcomes), LAMBDA call :
    With(IF IsExc(call.result) THEN call.result ELSE SafeParseResult(call.result.s),
         LAMBDA parsed :
        IF IsExc(parsed) /\ ~Caught(parsed)
        THEN [result |-> parsed, path |-> "raised", parsed |-> parsed,
              attempts |-> call.attempts]
        ELSE
    With(~IsExc(parsed) /\ UsePrimary(parsed), LAMBDA primary :
        [result |-> IF primary THEN parsed ELSE LocalFallbackParser(message),
         path |-> IF primary THEN "primary" ELSE "fallback",
         parsed |-> parsed,
         attempts |-> call.attempts])))

\* ------------------------------------------------------- ProductService

\* a Product: title and description are str; category is a str or None,
\* rating a float or None (the Optional fields the services read)
Product(id, title, description, category, rating) ==
    [id |-> id, title |-> title, description |-> description,
     category |-> category, rating |-> rating]

\* get_product_by_name(name, limit=5)
NameLimit == 5

\* filter_products_by_rating(min_rating, limit=5)
RatingLimit == 5

\* xs[:limit]
Take(xs, limit) == SubSeq(xs, 1, IF Len(xs) < limit THEN Len(xs) ELSE limit)

\* p matches name on its title or description
EarlyMatch(p, name) == Contains(Lower(p.title), name) \/ Contains(Lower(p.description), name)

\* ProductService.get_product_by_name after the listing is fetched: the
\* `or` chain reaches p.category.lower() when title and description do not
\* match, and None has no lower()
GetProductByName(all_products, name0, limit) ==
    With(Strip(Lower(name0)), LAMBDA name :
        IF \E i \in 1..Len(all_products) :
              ~EarlyMatch(all_products[i], name) /\ all_products[i].category.t # "str"
        THEN Exc("AttributeError")
        ELSE JList(Take(SelectSeq(all_products,
                                  LAMBDA p : \/ EarlyMatch(p, name)
                                             \/ Contains(Lower(p.category.s), name)),
                        limit)))

\* truth value of an Optional[float]: None and 0.0 are false
RatingTruthy(rating) == rating.t = "num" /\ rating.n # 0

\* ProductService.filter_products_by_rating after the listing is fetched;
\* min_rating is whatever the caller passes (a float, or None)
FilterProductsByRating(all_products, min_rating, limit) ==
    LET Test(p) == RatingTruthy(p.rating) /\ p.rating.n >= min_rating.n
    IN  IF min_rating.t # "num"
           /\ \E i \in 1..Len(all_products) : RatingTruthy(all_products[i].rating)
        THEN Exc("TypeError")
        ELSE JList(Take(SelectSeq(all_products, Test), limit))

\* ------------------------------------------------------ ResponseService

\* truth value of the entity: a non-empty str
Truthy(v) == v.t = "str" /\ v.s # ""

\* criteria.get("min_rating", 4.0)
DefaultMinRating == JNum(4 * Scale)

\* The catalog call generate_response makes for nlp_result: which method
\* ("name", "rating", "none") with which argument, or the exception raised
\* before any call (criteria.get on None)
CatalogCall(nlp_result) ==
    LET intent == Get(nlp_result.m, "intent", JStr("unknown"))
        entity == Get(nlp_result.m, "entity", JNull)
        criteria == Get(nlp_result.m, "criteria", JObj(EmptyMap))
    IN  IF intent.s \in {"price_query", "availability", "review_request"} /\ Truthy(entity)
        THEN [call |-> "name", arg |-> entity]
        ELSE IF intent.s = "rating_filter"
        THEN IF criteria.t # "obj" THEN [call |-> "raise", arg |-> Exc("AttributeError")]
             ELSE [call |-> "rating", arg |-> Get(criteria.m, "min_rating", DefaultMinRating)]
        ELSE [call |-> "none", arg |-> JNull]

\* {"message": "No relevant product data found."}
NoData == [message |-> "No relevant product data found."]

\* product_info of generate_response: the products found, or the sentinel
ProductInfo(products) ==
    IF Len(products) = 0 THEN << NoData >> ELSE products

\* --------------------------------------------------------------- inputs

\* user messages of POST /api/chat/
Messages ==
    { "Do you have any laptops?",
      "What's the price of iPhone?",
      "price of  ?",
      "Show me electronics with ratings above 4",
      "show me   with rating above 4",
      "ratings above 0",
      "rating >= 4.5",
      "reviews for Tablet",
      "Have any Phone in stock?",
      "show me fragrances",
      "browse shoes",
      "hello there" }

\* texts the completion service returns for the intent prompt
GroqTexts ==
    { "{\"intent\":\"price_query\",\"entity\":\" iPhone \",\"criteria\":null}",
      "{\"intent\":\"availability\",\"entity\":\"laptops\",\"criteria\":null}",
      "{\"intent\":\"review_request\",\"entity\":\"Mystery\"}",
      "{\"intent\":\"rating_filter\",\"entity\":null,\"criteria\":null}",
      "{\"intent\":\"rating_filter\",\"entity\":\"  \",\"criteria\":{}}",
      "{\"intent\":\"rating_filter\",\"criteria\":{\"min_rating\":\"high\"}}",
      "{\"intent\":\"rating_filter\",\"criteria\":{\"min_rating\":\" 4.5 \"}}",
      "{\"intent\":\"rating_filter\",\"criteria\":{\"min_rating\":0}}",
      "{\"intent\":\"buy\",\"entity\":\"tv\"}",
      "{\"intent\":5,\"entity\":7,\"criteria\":\"a\"}",
      "{\"intent\":[\"price_query\"],\"entity\":\"tv\"}",
      "{\"intent\":\"unknown\",\"entity\":\"tv\",\"criteria\":null}",
      "[{\"intent\":\"price_query\"}]",
      "42",
      "Sure! {\"intent\":\"price_query\",\"entity\":\"Laptop\",\"criteria\":null} ",
      "{\"intent\":\"price_query\",\"entity\":\"tv\"} and {\"intent\":\"unknown\"}",
      "{\"intent\":\"category_query\",\"entity\":\"home\"} }",
      "I cannot tell." }

\* what the first POST of the intent call does
GroqOutcomes ==
    { GroqFail("ConnectError"), GroqFail("HTTPStatusError"), GroqFail("KeyError") }
    \cup { GroqOk(text) : text \in GroqTexts }

\* what a second POST would do
RetryOutcomes ==
    { GroqFail("HTTPStatusError"),
      GroqOk("{\"intent\":\"price_query\",\"entity\":\"tv\",\"criteria\":null}") }

Phone(id) == Product(id, "iPhone", "An Apple phone", JStr("smartphones"), JNum(469))

\* the length of the longest listing (more than the limit of 5 results)
MaxListing == 6

Listings ==
    { << >>,
      << Phone(1),
         Product(2, "Laptop Pro", "Fast laptops", JStr("laptops"), JNum(0)) >>,
      << Phone(1),
         Product(3, "Mystery Box", "A surprise", JNull, JNull),
         Product(4, "Tablet", "Ten inch", JNull, JNum(4 * Scale)) >>,
      << Product(5, "Perfume", "Eau de toilette", JStr("fragrances"), JNull),
         Product(6, "TV", "Smart Electronics", JStr("home"), JNum(320)) >>,
      [i \in 1..MaxListing |-> Phone(i)] }

\* what GET <base>/products does: the listing, or a failure (ok = FALSE)
CatalogOutcomes ==
    { [ok |-> FALSE, products |-> << >>] }
    \cup { [ok |-> TRUE, products |-> l] : l \in Listings }

\* what the POST of generate_response does
CompletionOutcomes == { GroqFail("HTTPStatusError"), GroqOk(" We have it. ") }

\* -------------------------------------------------------- state machine

VARIABLES
    pc,          \* where the request of chat_with_bot stands
    message,     \* request.message
    first,       \* what the first POST of the intent call did
    attempts,    \* POSTs made by _call_groq_intent_api
    parsed,      \* `parsed` of analyze_message: a dict, None, or an exception
    path,        \* which return of analyze_message was taken
    nlp_result,  \* what analyze_message returned
    catalog,     \* the catalog call generate_response made
    listing,     \* what the catalog service answered
    products,    \* what the catalog method returned
    product_info, \* product_info of generate_response
    error,       \* the exception chat_with_bot turns into HTTP 500
    reply        \* ChatResponse.response

vars ==
    << pc, message, first, attempts, parsed, path, nlp_result, catalog,
       listing, products, product_info, error, reply >>

NoOutcome == [kind |-> "none", text |-> ""]

NoCall == [call |-> "", arg |-> JNull]

NoListing == [ok |-> FALSE, products |-> << >>]

Init ==
    /\ pc = "idle"
    /\ message = ""
    /\ first = NoOutcome
    /\ attempts = 0
    /\ parsed = JNull
    /\ path = ""
    /\ nlp_result = JNull
    /\ catalog = NoCall
    /\ listing = NoListing
    /\ products = << >>
    /\ product_info = << >>
    /\ error = ""
    /\ reply = ""

\* chat_with_bot: nlp_service.analyze_message(request.message); an exception
\* that escapes it ends the request (HTTP 500)
Analyze ==
    /\ pc = "idle"
    /\ \E msg \in Messages, o1 \in GroqOutcomes, o2 \in RetryOutcomes :
          \E r \in { AnalyzeMessage(msg, << o1, o2 >>) } :
              /\ message' = msg
              /\ first' = o1
              /\ attempts' = r.attempts
              /\ parsed' = r.parsed
              /\ path' = r.path
              /\ nlp_result' = r.result
              /\ pc' = IF IsExc(r.result) THEN "failed" ELSE "compose"
              /\ error' = IF IsExc(r.result) THEN r.result.kind ELSE ""
    /\ UNCHANGED << catalog, listing, products, product_info, reply >>

\* generate_response, step 1: the catalog call chosen by the intent, the
\* listing fetched and filtered; an exception ends the request
GatherProducts ==
    /\ pc = "compose"
    /\ catalog' = CatalogCall(nlp_result)
    /\ \/ /\ catalog'.call = "raise"
          /\ pc' = "failed"
          /\ error' = catalog'.arg.kind
          /\ UNCHANGED << listing, products, product_info >>
       \/ /\ catalog'.call = "none"
          /\ pc' = "completion"
          /\ product_info' = ProductInfo(<< >>)
          /\ UNCHANGED << listing, products, error >>
       \/ /\ catalog'.call \in {"name", "rating"}
          /\ \E got \in CatalogOutcomes :
                LET found ==
                        IF ~got.ok THEN Exc("HTTPStatusError")
                        ELSE IF catalog'.call = "name"
                        THEN GetProductByName(got.products, catalog'.arg.s, NameLimit)
                        ELSE FilterProductsByRating(got.products, catalog'.arg, RatingLimit)
                IN  /\ listing' = got
                    /\ IF IsExc(found)
                       THEN pc' = "failed" /\ error' = found.kind
                            /\ UNCHANGED << products, product_info >>
                       ELSE pc' = "completion" /\ products' = found.items
                            /\ product_info' = ProductInfo(found.items)
                            /\ UNCHANGED error
    /\ UNCHANGED << message, first, attempts, parsed, path, nlp_result, reply >>

\* generate_response, step 2: the completion call and the trimmed reply
Complete ==
    /\ pc = "completion"
    /\ \E o \in CompletionOutcomes :
          IF o.kind = "ok"
          THEN pc' = "done" /\ reply' = Strip(o.text) /\ UNCHANGED error
          ELSE pc' = "failed" /\ error' = o.kind /\ UNCHANGED reply
    /\ UNCHANGED << message, first, attempts, parsed, path, nlp_result, catalog,
                    listing, products, product_info >>

\* chat_with_bot returns (ChatResponse, or HTTP 500); the next request starts
\* from nothing: no state is kept across requests
Respond ==
    /\ pc \in {"done", "failed"}
    /\ pc' = "idle"
    /\ message' = ""
    /\ first' = NoOutcome
    /\ attempts' = 0
    /\ parsed' = JNull
    /\ path' = ""
    /\ nlp_result' = JNull
    /\ catalog' = NoCall
    /\ listing' = NoListing
    /\ products' = << >>
    /\ product_info' = << >>
    /\ error' = ""
    /\ reply' = ""

Next == Analyze \/ GatherProducts \/ Complete \/ Respond

Spec == Init /\ [][Next]_vars

\* --------------------------------------------------------------- claims

\* analyze_message has returned or raised
Analyzed == pc # "idle"

\* generate_response has chosen its catalog call
Gathered == catalog # NoCall

IntentOf(result) == result.m["intent"].s

\* C1: analyze_message never raises to its caller and always returns a dict
\* whose intent is one of the six enumerated values, whatever the completion
\* service does (error, no choices, non-JSON text, JSON that is not an object,
\* an object with arbitrary values).
C1_AnalyzeNeverRaises ==
    Analyzed =>
        /\ nlp_result.t = "obj"
        /\ DOMAIN nlp_result.m = {"intent", "entity", "criteria"}
        /\ nlp_result.m["intent"].t = "str"
        /\ nlp_result.m["intent"].s \in Intents
        /\ ~Gathered => (pc = "compose" /\ error = "")

\* C1 witness: the model's JSON had an unhashable intent, _normalize_parsed
\* raised TypeError, and analyze_message still returned a dict.
C1_Witness ==
    /\ pc = "compose"
    /\ first.kind = "ok"
    /\ IsExc(parsed) /\ parsed.kind = "TypeError"
    /\ nlp_result.t = "obj"

\* C2: a transient failure of the first POST (network error, non-2xx) is
\* followed by a second POST; at most 2 POSTs are made; the local parser runs
\* only after both attempts failed.
C2_RetriedOnce ==
    Analyzed =>
        /\ attempts <= GroqAttempts
        /\ first.kind \in {"ConnectError", "HTTPStatusError"} => attempts = GroqAttempts

\* C3: the result is the normalised primary result exactly when the primary
\* path produced a parsed dict with intent != unknown; in every other case
\* (call failed, output unparseable, intent unknown) it is the local parser's
\* result for the same message.
C3_FallbackDecision ==
    Analyzed =>
        IF parsed.t = "obj" /\ IntentOf(parsed) # "unknown"
        THEN path = "primary" /\ nlp_result = parsed
        ELSE path = "fallback" /\ nlp_result = LocalFallbackParser(message)

\* C3 witness: the primary path parsed a dict with intent unknown and the
\* result is the local parser's, which differs from it.
C3_Witness ==
    /\ pc = "compose"
    /\ parsed.t = "obj" /\ IntentOf(parsed) = "unknown"
    /\ path = "fallback"
    /\ IntentOf(nlp_result) # "unknown"
    /\ nlp_result # parsed

\* C4: for "Do you have any laptops?" the local parser returns availability
\* with entity "laptops" (without "any") and criteria null.
C4_AvailabilityEntity ==
    (Analyzed /\ message = "Do you have any laptops?" /\ path = "fallback")
        => nlp_result = IntentResult("availability", JStr("laptops"), JNull)

\* C5: in every result of analyze_message the entity is null or a non-empty
\* string without leading or trailing whitespace.
C5_EntityTrimmedOrNull ==
    Analyzed =>
        \/ nlp_result.m["entity"].t = "null"
        \/ /\ nlp_result.m["entity"].t = "str"
           /\ nlp_result.m["entity"].s # ""
           /\ Strip(nlp_result.m["entity"].s) = nlp_result.m["entity"].s

\* the minimum rating C6 expects: criteria.min_rating when it is a number,
\* else 4.0 (criteria null, no min_rating, min_rating null)
C6_ExpectedMinRating ==
    IF /\ nlp_result.m["criteria"].t = "obj"
       /\ "min_rating" \in DOMAIN nlp_result.m["criteria"].m
       /\ nlp_result.m["criteria"].m["min_rating"].t = "num"
    THEN nlp_result.m["criteria"].m["min_rating"]
    ELSE DefaultMinRating

\* C6: with intent rating_filter, generate_response calls
\* filter_products_by_rating with criteria.min_rating when it is a number and
\* with 4.0 when it is absent, and does not fail before the completion call.
C6_RatingFilterDefault ==
    (Gathered /\ IntentOf(nlp_result) = "rating_filter") =>
        /\ catalog.call = "rating"
        /\ catalog.arg = C6_ExpectedMinRating
        /\ error \notin {"AttributeError", "TypeError"}

\* C7: filter_products_by_rating returns the first `limit` records, in
\* listing order, whose rating is present and >= min_rating (a rating of 0
\* included when min_rating <= 0).
C7_FilterByRating ==
    (catalog.call = "rating" /\ catalog.arg.t = "num" /\ listing.ok) =>
        /\ error \notin {"AttributeError", "TypeError"}
        /\ Len(products) <= RatingLimit
        /\ products =
              Take(SelectSeq(listing.products,
                             LAMBDA p : p.rating.t = "num" /\ p.rating.n >= catalog.arg.n),
                   RatingLimit)

\* p matches name on its title, description or (when present) category
C8_Matches(p, name) ==
    \/ Contains(Lower(p.title), Lower(name))
    \/ Contains(Lower(p.description), Lower(name))
    \/ p.category.t = "str" /\ Contains(Lower(p.category.s), Lower(name))

\* C8: get_product_by_name returns without raising, for every listing of
\* valid products (category absent included), the first `limit` records in
\* listing order that match name on title, description or category.
C8_FindByName ==
    (catalog.call = "name" /\ listing.ok) =>
        /\ error \notin {"AttributeError", "TypeError"}
        /\ Len(products) <= NameLimit
        /\ products =
              Take(SelectSeq(listing.products, LAMBDA p : C8_Matches(p, catalog.arg.s)),
                   NameLimit)

\* the first balanced top-level {...} substring of s
C9_FirstBalanced(s) ==
    LET opens == { i \in 1..Len(s) : Ch(s, i) = "{" }
        depth(a, b) == Cardinality({ i \in a..b : Ch(s, i) = "{" })
                       - Cardinality({ i \in a..b : Ch(s, i) = "}" })
        closing(a) == { b \in a..Len(s) : depth(a, b) = 0 }
    IN  IF opens = {} \/ closing(Min(opens)) = {} THEN NoMatch
        ELSE Match(SubSeq(s, Min(opens), Min(closing(Min(opens)))))

\* C9: when the whole text is not valid JSON, the first balanced {...}
\* substring is parsed: if it is valid JSON the result is its normal form,
\* and only otherwise is there no primary result.
C9_FirstBalancedObject ==
    (Analyzed /\ first.kind = "ok" /\ ~JsonLoads(Strip(first.text)).ok) =>
        LET b == C9_FirstBalanced(Strip(first.text))
        IN  IF b.found /\ JsonLoads(b.group).ok
            THEN parsed = NormalizeParsed(JsonLoads(b.group).val)
            ELSE parsed = JNull

\* C10: normalising a normalised result changes nothing, also when
\* min_rating was uncoercible (stored as null) and when the intent was
\* clamped to unknown.
C10_NormalizeIdempotent ==
    (Analyzed /\ parsed.t = "obj") => NormalizeParsed(parsed) = parsed

\* C10 witness: _normalize_parsed stored null for a min_rating it could not
\* coerce.
C10_Witness ==
    /\ pc = "compose"
    /\ parsed.t = "obj"
    /\ parsed.m["criteria"].t = "obj"
    /\ "min_rating" \in DOMAIN parsed.m["criteria"].m
    /\ parsed.m["criteria"].m["min_rating"] = JNull

====
